---- MODULE Spec2Model ----
(***************************************************************************)
(* Model of Suno-Lyrics: the lyric line aligner, the LRC and SRT           *)
(* formatters and serializers (src/utils/alignment.ts), the normalization  *)
(* of fetched words (src/services/api.ts) and the App component's state.   *)
(*                                                                         *)
(* A string is a sequence of one-character strings, so that split, trim,   *)
(* startsWith/endsWith and normalize are computed character by character.  *)
(* The aligner's times are whole seconds; the formatters take a time as a  *)
(* number of ticks of 1/10000 s and compute on its IEEE double.  Word      *)
(* indices are 0-based as in the source; TLA+ sequences are 1-based, so    *)
(* word w of the source is alignedWords[w+1].                              *)
(***************************************************************************)
EXTENDS Integers, Sequences, FiniteSets, TLC

\* ------------------------------------------------------------------ bounds
\* Most pieces of LinePool in a prompt text.
MaxLines == 3
\* Most words in the aligned word list.
MaxWords == 3

\* --------------------------------------------------------------- alphabet
Whitespace == {" ", "\n"}
Letters == {"a", "b", "c", "A", "B"}

\* String.prototype.toLowerCase, one character.
ToLowerChar(ch) ==
  CASE ch = "A" -> "a"
    [] ch = "B" -> "b"
    [] OTHER -> ch

\* The character class [\p{L}\p{N}].
IsLetterOrNumber(ch) == ch \in Letters

\* ------------------------------------------------------ sequence helpers
Last(s) == s[Len(s)]
Min(S) == CHOOSE x \in S : \A y \in S : x <= y
NonEmpty(s) == Len(s) > 0

\* All sequences over S of length at most n.
SeqUpTo(S, n) == UNION {[1..k -> S] : k \in 0..n}

\* Array index with JavaScript's out-of-range result.
Undefined == [undefined |-> TRUE]
At(arr, k) == IF k + 1 \in DOMAIN arr THEN arr[k + 1] ELSE Undefined

\* ------------------------------------------------------ string functions
\* normalize: lowercase, then delete every character that is not a letter
\* or a digit.
normalize(text) ==
  LET lower == [k \in DOMAIN text |-> ToLowerChar(text[k])]
  IN  SelectSeq(lower, IsLetterOrNumber)

\* String.prototype.trim.
RECURSIVE TrimStart(_)
TrimStart(s) ==
  IF s # <<>> /\ Head(s) \in Whitespace THEN TrimStart(Tail(s)) ELSE s

RECURSIVE TrimEnd(_)
TrimEnd(s) ==
  IF s # <<>> /\ s[Len(s)] \in Whitespace
  THEN TrimEnd(SubSeq(s, 1, Len(s) - 1)) ELSE s

trim(s) == TrimEnd(TrimStart(s))

\* split('\n'): the pieces between successive separators; n separators
\* give n + 1 pieces, and the empty string gives one empty piece.
RECURSIVE SplitOn(_, _, _)
SplitOn(s, sep, piece) ==
  IF s = <<>> THEN <<piece>>
  ELSE IF Head(s) = sep THEN <<piece>> \o SplitOn(Tail(s), sep, <<>>)
  ELSE SplitOn(Tail(s), sep, Append(piece, Head(s)))

split(s, sep) == SplitOn(s, sep, <<>>)

\* split(/\s+/): the pieces between successive maximal runs of whitespace.
RECURSIVE SplitRuns(_, _, _)
SplitRuns(s, piece, inRun) ==
  IF s = <<>> THEN <<piece>>
  ELSE IF Head(s) \in Whitespace
       THEN IF inRun THEN SplitRuns(Tail(s), piece, TRUE)
            ELSE <<piece>> \o SplitRuns(Tail(s), <<>>, TRUE)
       ELSE SplitRuns(Tail(s), Append(piece, Head(s)), FALSE)

splitWhitespace(s) == SplitRuns(s, <<>>, FALSE)

startsWith(s, ch) == s # <<>> /\ s[1] = ch
endsWith(s, ch) == s # <<>> /\ s[Len(s)] = ch

\* Array.prototype.join('\n').
RECURSIVE join(_, _)
join(parts, sep) ==
  IF parts = <<>> THEN <<>>
  ELSE IF Len(parts) = 1 THEN parts[1]
  ELSE parts[1] \o <<sep>> \o join(Tail(parts), sep)

\* ------------------------------------------------------------ alignLyrics
\* promptText.split('\n').map(l => l.trim()).filter(l => l.length > 0)
RawLines(promptText) ==
  LET pieces == split(promptText, "\n")
      trimmed == [k \in DOMAIN pieces |-> trim(pieces[k])]
  IN  SelectSeq(trimmed, NonEmpty)

\* IsMetadataTag with the closing bracket mistyped as an opening one.
IsMetadataTagTypo(lineText) == startsWith(lineText, "[") /\ endsWith(lineText, "[")

\* lineText.startsWith('[') && lineText.endsWith(']')
IsMetadataTag(lineText) == startsWith(lineText, "[") /\ endsWith(lineText, "]")

\* lineText.split(/\s+/).map(normalize).filter(t => t.length > 0)
LineTokens(lineText) ==
  LET pieces == splitWhitespace(lineText)
      normalized == [k \in DOMAIN pieces |-> normalize(pieces[k])]
  IN  SelectSeq(normalized, NonEmpty)

\* matchIndex when no word matched (line 52).
NotFound == -1
\* The result of a search that threw.
Threw == NotFound - 1

\* normalize(x.word); reading a property of undefined throws a TypeError.
TypeError == <<"TypeError">>
WordOf(x) == IF x = Undefined THEN TypeError ELSE normalize(x.word)

\* PrimarySearch that goes on scanning when the word after a first-token match
\* is not the second token, and anchors on the first confirmed pair if any.
RECURSIVE PrimarySearchConfirmed(_, _, _)
PrimarySearchConfirmed(lineTokens, w, words) ==
  IF ~(w < Len(words)) THEN NotFound
  ELSE IF WordOf(At(words, w)) = lineTokens[1]
    THEN IF Len(lineTokens) > 1 /\ w + 1 < Len(words)
         THEN IF WordOf(At(words, w + 1)) = lineTokens[2] THEN w
              ELSE LET later == PrimarySearchConfirmed(lineTokens, w + 1, words) IN
                   IF later = NotFound THEN w ELSE later
         ELSE w
    ELSE PrimarySearchConfirmed(lineTokens, w + 1, words)

\* PrimarySearch that reads the word after a first-token match without
\* testing that there is one.
RECURSIVE PrimarySearchUnguarded(_, _, _)
PrimarySearchUnguarded(lineTokens, w, words) ==
  IF ~(w < Len(words)) THEN NotFound
  ELSE IF WordOf(At(words, w)) = lineTokens[1]
    THEN IF Len(lineTokens) > 1
         THEN IF WordOf(At(words, w + 1)) = TypeError THEN Threw ELSE w
         ELSE w
    ELSE PrimarySearchUnguarded(lineTokens, w + 1, words)

\* The primary scan: the first w >= wordCursor whose normalized word is the
\* line's first token.  The check of the word after it sets matchIndex to the
\* same w on both of its branches and then leaves the loop.
RECURSIVE PrimarySearch(_, _, _)
PrimarySearch(lineTokens, w, words) ==
  IF ~(w < Len(words)) THEN NotFound
  ELSE LET audioWord == WordOf(At(words, w)) IN
    IF audioWord = TypeError THEN Threw
    ELSE IF audioWord = lineTokens[1]
    THEN IF Len(lineTokens) > 1 /\ w + 1 < Len(words)
         THEN LET nextAudioWord == WordOf(At(words, w + 1)) IN
              IF nextAudioWord = TypeError THEN Threw
              ELSE IF nextAudioWord = lineTokens[2] THEN w
              ELSE w
         ELSE w
    ELSE PrimarySearch(lineTokens, w + 1, words)

\* FallbackSearch that starts one word after the cursor.
RECURSIVE FallbackSearchAfter(_, _, _)
FallbackSearchAfter(lineTokens, w, words) ==
  IF ~(w + 1 < Len(words)) THEN NotFound
  ELSE IF WordOf(At(words, w + 1)) = lineTokens[2] THEN w + 1
  ELSE FallbackSearchAfter(lineTokens, w + 1, words)

\* The fallback scan: the first w >= wordCursor whose normalized word is the
\* line's second token.
RECURSIVE FallbackSearch(_, _, _)
FallbackSearch(lineTokens, w, words) ==
  IF ~(w < Len(words)) THEN NotFound
  ELSE LET audioWord == WordOf(At(words, w)) IN
    IF audioWord = TypeError THEN Threw
    ELSE IF audioWord = lineTokens[2] THEN w
    ELSE FallbackSearch(lineTokens, w + 1, words)

\* matchIndex at line 92: the primary result, or the fallback's when the
\* primary found nothing and the line has a second token.
MatchIndex(lineTokens, cursor, words) ==
  LET primary == PrimarySearch(lineTokens, cursor, words) IN
  IF primary = NotFound /\ Len(lineTokens) > 1
  THEN FallbackSearch(lineTokens, cursor, words)
  ELSE primary

\* The line pushed at lines 96-101.
NewLine(lineText, matchIndex, words) ==
  [text |-> lineText, startTime |-> At(words, matchIndex).start,
   endTime |-> 0, words |-> <<>>]

\* NextCursor that stays on the anchor.
NextCursorSame(matchIndex) == matchIndex

\* NextCursor that starts every search from the first word.
NextCursorReset(matchIndex) == 0

\* The cursor after a line anchored at matchIndex (line 105).
NextCursor(matchIndex) == matchIndex + 1

\* The buffer added to the last line's start when no later end is known.
DefaultBuffer == 5

\* LastEndTime that takes the last word's end whatever it is.
LastEndTimeUnchecked(currentLine, words) ==
  LET lastWord == At(words, Len(words) - 1) IN
  IF lastWord # Undefined THEN lastWord.end
  ELSE currentLine.startTime + DefaultBuffer

\* LastEndTime that also takes a last word's end equal to the start.
LastEndTimeAtLeast(currentLine, words) ==
  LET lastWord == At(words, Len(words) - 1) IN
  IF lastWord # Undefined /\ lastWord.end >= currentLine.startTime
  THEN lastWord.end
  ELSE currentLine.startTime + DefaultBuffer

\* The end of the last line.
LastEndTime(currentLine, words) ==
  LET lastWord == At(words, Len(words) - 1) IN
  IF lastWord # Undefined /\ lastWord.end > currentLine.startTime
  THEN lastWord.end
  ELSE currentLine.startTime + DefaultBuffer

\* SetEndTimes that copies the next line's end time, not yet set when it is
\* read, instead of its start time.
SetEndTimesFromEnd(ls, words) ==
  [k \in DOMAIN ls |->
     IF k + 1 \in DOMAIN ls
     THEN [ls[k] EXCEPT !.endTime = ls[k + 1].endTime]
     ELSE [ls[k] EXCEPT !.endTime = LastEndTime(ls[k], words)]]

\* The post-process loop: every line ends where the next one starts.
SetEndTimes(ls, words) ==
  [k \in DOMAIN ls |->
     IF k + 1 \in DOMAIN ls
     THEN [ls[k] EXCEPT !.endTime = ls[k + 1].startTime]
     ELSE [ls[k] EXCEPT !.endTime = LastEndTime(ls[k], words)]]

\* The loop over the source lines from line k on, as one value: the lines
\* pushed, with their end times not yet set.  A search that threw ends the
\* call: nothing is returned, here the value Thrown.
Thrown == <<[thrown |-> TRUE]>>

RECURSIVE AlignFrom(_, _, _, _)
AlignFrom(rl, k, cursor, words) ==
  IF ~(k < Len(rl)) THEN <<>>
  ELSE LET text == At(rl, k) IN
    IF IsMetadataTag(text) THEN AlignFrom(rl, k + 1, cursor, words)
    ELSE LET lineTokens == LineTokens(text)
             matchIndex == MatchIndex(lineTokens, cursor, words) IN
      IF lineTokens = <<>> THEN AlignFrom(rl, k + 1, cursor, words)
      ELSE IF matchIndex = Threw THEN Thrown
      ELSE IF matchIndex # NotFound
      THEN LET rest == AlignFrom(rl, k + 1, NextCursor(matchIndex), words) IN
           IF rest = Thrown THEN Thrown
           ELSE <<NewLine(text, matchIndex, words)>> \o rest
      ELSE AlignFrom(rl, k + 1, cursor, words)

\* alignLyrics as a function of its two arguments.
alignLyrics(text, words) ==
  LET pushed == AlignFrom(RawLines(text), 0, 0, words) IN
  IF pushed = Thrown THEN Thrown ELSE SetEndTimes(pushed, words)

\* ----------------------------------------------------------------- inputs
\* Pieces the prompt text is made of, each one source line but the last,
\* which is two.
LinePool ==
  { <<"[", "a", "]", " ", " ", "b">>,   \* "[a]  b": tokens a, b
    <<"B">>,                            \* "B": token b
    <<" ", "[", "a", "]", " ">>,        \* " [a] ": a section marker
    <<"c", " ", "A", "!">>,             \* "c A!": tokens c, a
    <<"!", "\n", " ">> }                \* "!", no letter or digit, and a
                                        \* line that is blank once trimmed

\* Texts of the words of the audio.
WordPool == { <<"a">>, <<"B", "!">> }

\* Start and end times of the words, in seconds.
Times == {0, 1}

\* The word list arrives in time order: starts never decrease.  No search
\* reads a time, so the order bears on the returned times only.
InTimeOrder(starts) ==
  \A j, k \in DOMAIN starts : j < k => starts[j] <= starts[k]

\* alignLyrics reads the end of the last word only (line 119): the last word
\* ends at any time, before its own start included, and every word before it
\* ends where the next one starts.
MakeWords(texts, starts, lastEnd) ==
  [k \in DOMAIN texts |->
     [word |-> texts[k], start |-> starts[k],
      end |-> IF k + 1 \in DOMAIN texts THEN starts[k + 1] ELSE lastEnd]]

WordLists ==
  UNION { { MakeWords(texts, starts, lastEnd) :
              texts \in [1..n -> WordPool],
              starts \in {st \in [1..n -> Times] : InTimeOrder(st)},
              lastEnd \in Times } : n \in 0..MaxWords }

PromptTexts == { join(ls, "\n") : ls \in SeqUpTo(LinePool, MaxLines) }

\* The lines of the pool, by what they are.
TwoTokenLine == <<"[", "a", "]", " ", " ", "b">>
OneTokenLine == <<"B">>
MarkerLine == <<"[", "a", "]">>
FallbackLine == <<"c", " ", "A", "!">>
NoTokenLine == <<"!">>

\* ------------------------------------------------------------------ state
VARIABLES
  promptText,    \* the text argument
  alignedWords,  \* the word list argument
  rawLines,      \* the trimmed non-empty lines of the text
  i,             \* index of the source line the loop is at (0-based)
  wordCursor,    \* the earliest word the next search may use (0-based)
  lines,         \* the AlignedLines pushed so far
  anchors,       \* history: matchIndex of every pushed line
  pc,            \* "loop", "done" or "threw"; "idle" outside any call
  returned,      \* history: arguments and result of every completed call
  songId,        \* App: the song id field
  appState,      \* App: AppState
  errorMsg,      \* App: the message shown
  result,        \* App: the GenerationResult or Null
  metadata,      \* App: the clip metadata or Null
  pending,       \* App: handleFetch calls waiting at line 131
  timeTicks,     \* formatters: the time argument, in ticks
  lrcTime,       \* formatters: what formatLrcTime returned
  srtTime,       \* formatters: what formatSrtTime returned
  given,         \* serializers: the lines argument
  srtContent,    \* serializers: what generateSRT returned
  found,         \* ingestion: the items found in the response
  normalizedWords \* ingestion: what is handed on

vars == <<promptText, alignedWords, rawLines, i, wordCursor, lines, anchors, pc>>
appVars == <<songId, appState, errorMsg, result, metadata, pending>>
formatVars == <<timeTicks, lrcTime, srtTime>>
serializeVars == <<given, srtContent>>
ingestVars == <<found, normalizedWords>>
allVars ==
  <<vars, returned, appVars, formatVars, serializeVars, ingestVars>>

\* What has not happened yet: a result, a call, a return value.
Null == [null |-> TRUE]
None == <<"none">>

\* The parts of the state a specification does not use stay as they start.
AlignIdle ==
  /\ promptText = <<>>
  /\ alignedWords = <<>>
  /\ rawLines = <<>>
  /\ i = 0
  /\ wordCursor = 0
  /\ lines = <<>>
  /\ anchors = <<>>
  /\ pc = "idle"
  /\ returned = <<>>

AppIdle ==
  /\ songId = <<>>
  /\ appState = "IDLE"
  /\ errorMsg = ""
  /\ result = Null
  /\ metadata = Null
  /\ pending = 0

FormatIdle == timeTicks = 0 /\ lrcTime = None /\ srtTime = None
SerializeIdle == given = <<>> /\ srtContent = None
IngestIdle == found = <<>> /\ normalizedWords = <<Null>>

\* alignLyrics touches nothing but its arguments and locals.
OutsideCall == <<appVars, formatVars, serializeVars, ingestVars>>

\* The state on entry to the loop over the source lines (line 40).
Init ==
  /\ promptText \in PromptTexts
  /\ rawLines = RawLines(promptText)
  /\ alignedWords \in WordLists
  /\ i = 0
  /\ wordCursor = 0
  /\ lines = <<>>
  /\ anchors = <<>>
  /\ pc = "loop"
  /\ returned = <<>>
  /\ AppIdle /\ FormatIdle /\ SerializeIdle /\ IngestIdle

InLoop == pc = "loop" /\ i < Len(rawLines)
lineText == At(rawLines, i)

\* Lines 45-47: a section marker is passed over.
SkipMetadataTag ==
  /\ InLoop
  /\ IsMetadataTag(lineText)
  /\ i' = i + 1
  /\ UNCHANGED <<promptText, alignedWords, rawLines, wordCursor, lines, anchors, pc>>
  /\ UNCHANGED <<returned, OutsideCall>>

\* SkipNoTokens that spends a word on the line it passes over.
SkipNoTokensAdvancing ==
  /\ InLoop
  /\ ~IsMetadataTag(lineText)
  /\ LineTokens(lineText) = <<>>
  /\ i' = i + 1
  /\ wordCursor' = IF wordCursor < Len(alignedWords) THEN wordCursor + 1 ELSE wordCursor
  /\ UNCHANGED <<promptText, alignedWords, rawLines, lines, anchors, pc>>
  /\ UNCHANGED <<returned, OutsideCall>>

\* Line 50: a line without tokens is passed over.
SkipNoTokens ==
  /\ InLoop
  /\ ~IsMetadataTag(lineText)
  /\ LineTokens(lineText) = <<>>
  /\ i' = i + 1
  /\ UNCHANGED <<promptText, alignedWords, rawLines, wordCursor, lines, anchors, pc>>
  /\ UNCHANGED <<returned, OutsideCall>>

\* Lines 49-106 with an anchor found: the line is pushed and the cursor moves
\* past the anchor.  A search that threw ends the call.
EmitLine ==
  /\ InLoop
  /\ ~IsMetadataTag(lineText)
  /\ LET lineTokens == LineTokens(lineText)
         matchIndex == MatchIndex(lineTokens, wordCursor, alignedWords)
     IN
     /\ lineTokens # <<>>
     /\ matchIndex # NotFound
     /\ IF matchIndex = Threw
        THEN /\ pc' = "threw"
             /\ UNCHANGED <<i, wordCursor, lines, anchors>>
        ELSE /\ lines' = Append(lines, NewLine(lineText, matchIndex, alignedWords))
             /\ anchors' = Append(anchors, matchIndex)
             /\ wordCursor' = NextCursor(matchIndex)
             /\ i' = i + 1
             /\ pc' = pc
  /\ UNCHANGED <<promptText, alignedWords, rawLines>>
  /\ UNCHANGED <<returned, OutsideCall>>

\* DropLine that leaves the cursor where the failed scan ended.
DropLineExhausted ==
  /\ InLoop
  /\ ~IsMetadataTag(lineText)
  /\ LET lineTokens == LineTokens(lineText) IN
       /\ lineTokens # <<>>
       /\ MatchIndex(lineTokens, wordCursor, alignedWords) = NotFound
  /\ i' = i + 1
  /\ wordCursor' = Len(alignedWords)
  /\ UNCHANGED <<promptText, alignedWords, rawLines, lines, anchors, pc>>
  /\ UNCHANGED <<returned, OutsideCall>>

\* Lines 49-106 with no anchor found: nothing is pushed.
DropLine ==
  /\ InLoop
  /\ ~IsMetadataTag(lineText)
  /\ LET lineTokens == LineTokens(lineText) IN
       /\ lineTokens # <<>>
       /\ MatchIndex(lineTokens, wordCursor, alignedWords) = NotFound
  /\ i' = i + 1
  /\ UNCHANGED <<promptText, alignedWords, rawLines, wordCursor, lines, anchors, pc>>
  /\ UNCHANGED <<returned, OutsideCall>>

\* Lines 111-128: the end times are set and the list is returned.
PostProcess ==
  /\ pc = "loop"
  /\ ~(i < Len(rawLines))
  /\ lines' = SetEndTimes(lines, alignedWords)
  /\ pc' = "done"
  /\ UNCHANGED <<promptText, alignedWords, rawLines, i, wordCursor, anchors>>
  /\ UNCHANGED <<returned, OutsideCall>>

Next == SkipMetadataTag \/ SkipNoTokens \/ EmitLine \/ DropLine \/ PostProcess

Spec == Init /\ [][Next]_vars

TypeOK ==
  /\ i \in 0..Len(rawLines)
  /\ wordCursor \in 0..Len(alignedWords)
  /\ pc \in {"loop", "done", "threw"}
  /\ Len(anchors) = Len(lines)

\* The stepwise run and the function agree on the returned list.
RunIsFunction ==
  pc = "done" => lines = alignLyrics(promptText, alignedWords)


\* ------------------------------------------------- numbers (IEEE 754 double)
\* A time is written as a whole number of ticks of 1/TicksPerSecond s.  The
\* number the code holds is the double nearest to that decimal (what
\* JSON.parse and parseFloat return), kept here as its integer part and the
\* bits of its fraction, most significant first.
TicksPerSecond == 10000
Precision == 53

RECURSIVE BitLength(_)
BitLength(n) == IF n = 0 THEN 0 ELSE 1 + BitLength(n \div 2)

\* One unit added in the last place of a bit string; carry is the overflow.
\* done holds the low bits already settled.
RECURSIVE Increment(_, _)
Increment(bits, done) ==
  LET k == Len(bits) - Len(done) IN
  IF k = 0 THEN [bits |-> done, carry |-> 1]
  ELSE IF bits[k] = 0
       THEN [bits |-> SubSeq(bits, 1, k - 1) \o <<1>> \o done, carry |-> 0]
       ELSE Increment(bits, <<0>> \o done)

\* The zero bits that follow the binary point of rem/TicksPerSecond, rem > 0.
RECURSIVE ZerosAfterPoint(_)
ZerosAfterPoint(rem) ==
  IF 2 * rem >= TicksPerSecond THEN 0 ELSE 1 + ZerosAfterPoint(2 * rem)

\* The first width bits of the binary expansion of rem/TicksPerSecond, and
\* what is left of the division.
RECURSIVE FractionBits(_, _, _)
FractionBits(rem, width, bits) ==
  IF Len(bits) = width \/ rem = 0 THEN [bits |-> bits, rem |-> rem]
  ELSE LET b == IF 2 * rem >= TicksPerSecond THEN 1 ELSE 0 IN
       FractionBits(2 * rem - b * TicksPerSecond, width, Append(bits, b))

\* The double nearest to ticks/TicksPerSecond (round to nearest, ties to
\* even): the significand holds Precision bits from the leading one on.
ToDouble(ticks) ==
  LET q == ticks \div TicksPerSecond
      r == ticks % TicksPerSecond
      width == IF q > 0 THEN Precision - BitLength(q)
               ELSE IF r > 0 THEN ZerosAfterPoint(r) + Precision ELSE 0
      fb == FractionBits(r, width, <<>>)
      up == \/ 2 * fb.rem > TicksPerSecond
            \/ 2 * fb.rem = TicksPerSecond /\ fb.bits # <<>> /\ Last(fb.bits) = 1
      inc == IF up THEN Increment(fb.bits, <<>>) ELSE [bits |-> fb.bits, carry |-> 0]
  IN [int |-> q + inc.carry, frac |-> inc.bits]

\* x % 1 of a non-negative double: exact.
FractionOf(x) == [int |-> 0, frac |-> x.frac]

\* The exact product of a fraction and a small whole number, from the last
\* bit up; done holds the low bits already settled.
RECURSIVE TimesExact(_, _, _, _)
TimesExact(bits, c, carry, done) ==
  LET k == Len(bits) - Len(done) IN
  IF k = 0 THEN [int |-> carry, frac |-> done]
  ELSE LET v == bits[k] * c + carry IN
       TimesExact(bits, c, v \div 2, <<v % 2>> \o done)

RECURSIVE LeadingZeros(_)
LeadingZeros(bits) ==
  IF bits = <<>> \/ Head(bits) = 1 THEN 0 ELSE 1 + LeadingZeros(Tail(bits))

\* An exact value rounded to the nearest double (ties to even).
RoundToDouble(p) ==
  LET keep == IF p.int > 0 THEN Precision - BitLength(p.int)
              ELSE LeadingZeros(p.frac) + Precision
  IN IF Len(p.frac) <= keep THEN p
     ELSE LET kept == SubSeq(p.frac, 1, keep)
              rest == SubSeq(p.frac, keep + 1, Len(p.frac))
              odd == IF keep > 0 THEN kept[keep] = 1 ELSE p.int % 2 = 1
              up == /\ rest[1] = 1
                    /\ odd \/ \E j \in 2..Len(rest) : rest[j] = 1
              inc == IF up THEN Increment(kept, <<>>) ELSE [bits |-> kept, carry |-> 0]
          IN [int |-> p.int + inc.carry, frac |-> inc.bits]

\* x * c in double arithmetic, for a fraction x and a small whole number c.
Multiply(x, c) == RoundToDouble(TimesExact(x.frac, c, 0, <<>>))

\* Math.floor of a non-negative double.
Floor(x) == x.int

\* Math.floor(x / d) and Math.floor(x % d) for a whole number d: % is exact
\* and the integer part of x is exact; a double at most half a unit in the
\* last place away from a whole number of ticks is either a multiple of d or
\* further below one than the rounding of the quotient can bridge.
FloorDiv(x, d) == x.int \div d
FloorMod(x, d) == x.int % d

\* ---------------------------------------------------------- time formatting
Digits == <<"0", "1", "2", "3", "4", "5", "6", "7", "8", "9">>

\* Number.prototype.toString of a non-negative whole number.
RECURSIVE toString(_)
toString(n) ==
  IF n < 10 THEN <<Digits[n + 1]>> ELSE Append(toString(n \div 10), Digits[(n % 10) + 1])

RECURSIVE padStart(_, _, _)
padStart(s, targetLength, ch) ==
  IF Len(s) >= targetLength THEN s ELSE padStart(<<ch>> \o s, targetLength, ch)

\* Lines 11-16.
formatLrcTime(seconds) ==
  LET mins == FloorDiv(seconds, 60)
      secs == FloorMod(seconds, 60)
      ms == Floor(Multiply(FractionOf(seconds), 100))
  IN <<"[">> \o padStart(toString(mins), 2, "0") \o <<":">>
     \o padStart(toString(secs), 2, "0") \o <<".">>
     \o padStart(toString(ms), 2, "0") \o <<"]">>

\* Lines 21-27.
formatSrtTime(seconds) ==
  LET hrs == FloorDiv(seconds, 3600)
      mins == FloorMod(seconds, 3600) \div 60
      secs == FloorMod(seconds, 60)
      ms == Floor(Multiply(FractionOf(seconds), 1000))
  IN padStart(toString(hrs), 2, "0") \o <<":">>
     \o padStart(toString(mins), 2, "0") \o <<":">>
     \o padStart(toString(secs), 2, "0") \o <<",">>
     \o padStart(toString(ms), 3, "0")


\* -------------------------------------------------------------- serializers
\* The double of a whole number of seconds.
Seconds(s) == ToDouble(s * TicksPerSecond)

Arrow == <<" ", "-", "-", ">", " ">>

\* Lines 131-133.
generateLRC(ls) ==
  join([k \in DOMAIN ls |-> formatLrcTime(Seconds(ls[k].startTime)) \o ls[k].text],
       "\n")

\* SrtBlock that numbers from 0.
SrtBlockFromZero(line, index) ==
  toString(index) \o <<"\n">>
  \o formatSrtTime(Seconds(line.startTime)) \o Arrow
  \o formatSrtTime(Seconds(line.endTime)) \o <<"\n">>
  \o line.text \o <<"\n">>

\* The template of lines 136-138 for the line at 0-based position index.
SrtBlock(line, index) ==
  toString(index + 1) \o <<"\n">>
  \o formatSrtTime(Seconds(line.startTime)) \o Arrow
  \o formatSrtTime(Seconds(line.endTime)) \o <<"\n">>
  \o line.text \o <<"\n">>

\* Lines 135-139.
generateSRT(ls) ==
  join([k \in DOMAIN ls |-> SrtBlock(ls[k], k - 1)], "\n")

\* ---------------------------------------------------------------- the app
HexDigits == {"0", "1", "2", "3", "4", "5", "6", "7", "8", "9",
              "a", "b", "c", "d", "e", "f", "A", "B", "C", "D", "E", "F"}

\* api.ts line 8: 8-4-4-4-12 hexadecimal digits, either case.
isValidUUID(id) ==
  /\ Len(id) = 36
  /\ \A k \in 1..36 :
       IF k \in {9, 14, 19, 24} THEN id[k] = "-" ELSE id[k] \in HexDigits

Hex(n, ch) == [k \in 1..n |-> ch]
SomeUUID ==
  Hex(8, "0") \o <<"-">> \o Hex(4, "a") \o <<"-">> \o Hex(4, "F") \o <<"-">>
  \o Hex(4, "9") \o <<"-">> \o Hex(12, "c")

\* What the user may have typed into the song id field.
SongIds == {<<>>, <<"0", "-", "a">>, SomeUUID}

\* The prompts a clip's metadata may carry; the empty one also stands for a
\* metadata object without a prompt, which line 154 treats alike.
AppPrompts == {<<>>, MarkerLine, join(<<FallbackLine, OneTokenLine>>, "\n")}

\* A clip's metadata by its prompt; NoMetadata is a response without the
\* metadata object.
Meta(prompt) == [metadata |-> [prompt |-> prompt]]
NoMetadata == [metadata |-> Undefined]
Metas == {Meta(p) : p \in AppPrompts} \cup {NoMetadata}

\* The messages of part_001 lines 121-181 and api.ts lines 40-42, 115-117.
MsgInvalidId == "Please enter a valid Suno Song ID (UUID)."
MsgUnexpected == "An unexpected error occurred."
MsgUnauthorized == "Unauthorized: Please provide a valid Suno session token."
MsgCorsNoProxy == "CORS Error: The browser blocked the request. Suno APIs do not allow direct browser access. Please configure a Proxy URL in settings below or use Manual Mode."
MsgNoLyrics == "No lyrics found in metadata."
MsgNoWords == "No aligned lyrics data found. The API response might have been empty or had an unrecognized structure."
MsgAlignFailed == "Error processing lyrics alignment. Check console for details."

\* --------------------------------------------------------------- ingestion
\* A JSON value by its typeof; absent properties read as undefined.
Str(s) == [type |-> "string", str |-> s, num |-> 0]
Num(n) == [type |-> "number", str |-> <<>>, num |-> n]
Undef == [type |-> "undefined", str |-> <<>>, num |-> 0]
JsonNull == [type |-> "null", str |-> <<>>, num |-> 0]

RawItem(word, start, end, start_s, end_s, p_align) ==
  [word |-> word, start |-> start, end |-> end, start_s |-> start_s,
   end_s |-> end_s, score |-> Undef, p_align |-> p_align]

\* a ?? b
Coalesce(a, b) == IF a.type \in {"undefined", "null"} THEN b ELSE a

\* The object built by the map callback (api.ts 83-88, part_001 222-227).
NormalizeItem(w) ==
  [word |-> w.word,
   start |-> IF w.start.type = "number" THEN w.start
             ELSE IF w.start_s.type = "number" THEN w.start_s ELSE Undef,
   end |-> IF w.end.type = "number" THEN w.end
           ELSE IF w.end_s.type = "number" THEN w.end_s ELSE Undef,
   score |-> Coalesce(w.score, w.p_align)]

\* NormalizeItem that reads only the start/end spelling.
NormalizeItemOneSpelling(w) ==
  [word |-> w.word,
   start |-> IF w.start.type = "number" THEN w.start ELSE Undef,
   end |-> IF w.end.type = "number" THEN w.end ELSE Undef,
   score |-> Coalesce(w.score, w.p_align)]

\* The filter callback (api.ts 88-90, part_001 227-229).
IsSunoWord(w) == w.word.type = "string" /\ w.start.type = "number"

\* Reading w.word of a null item throws.
Throws(rawWords) == \E k \in DOMAIN rawWords : rawWords[k] = JsonNull

\* api.ts 83-90, part_001 222-229: map, then filter.
NormalizeWords(rawWords) ==
  IF Throws(rawWords) THEN Thrown
  ELSE SelectSeq([k \in DOMAIN rawWords |-> NormalizeItem(rawWords[k])], IsSunoWord)

\* The SunoWord records the aligner reads, for words whose end is a number.
ToSunoWords(ws) ==
  [k \in DOMAIN ws |->
     [word |-> ws[k].word.str, start |-> ws[k].start.num, end |-> ws[k].end.num]]

\* The raw items of the model: each property absent, of the right type or of
\* a wrong type.
RawItems ==
  { RawItem(word, start, end, start_s, end_s, p_align) :
      word \in {Str(<<"a">>), Num(7), Undef},
      start \in {Num(0), Str(<<"0">>), Undef},
      end \in {Num(1), Undef},
      start_s \in {Num(1), Undef},
      end_s \in {Num(2), Undef},
      p_align \in {Num(1), Undef} } \cup {JsonNull}

MaxRawWords == 1
RawWordLists == SeqUpTo(RawItems, MaxRawWords)

\* The JSON pasted into the manual form, as JSON.parse and the search for an
\* array (part_001 188-219) see it: items is the array found, empty if none.
Json(kind, items) == [kind |-> kind, items |-> items]

\* Raw items as a response or a pasted array may carry them, with numeric ends.
Word(text, start, end) == RawItem(Str(text), Num(start), Num(end), Undef, Undef, Undef)
WordS(text, start, end) == RawItem(Str(text), Undef, Undef, Num(start), Num(end), Num(1))
NoWord == RawItem(Undef, Num(0), Num(1), Undef, Undef, Undef)
AppRawWords ==
  {<<>>,
   <<NoWord>>,
   <<JsonNull>>,
   <<Word(<<"a">>, 0, 1), NoWord, WordS(<<"B", "!">>, 1, 1)>>}

ManualJsons ==
  {Json("invalid", <<>>), Json("scalar", <<>>), Json("object", <<>>)}
  \cup {Json("array", items) : items \in AppRawWords}

MsgSyntaxError == "SyntaxError"
MsgTypeError == "TypeError"
MsgNoArray == "Could not find a valid lyrics array in the JSON object."
MsgNotArray == "JSON must be an array of words or an object containing them."
MsgNoItems == "Found array, but items are missing 'word' or 'start/start_s' properties."

\* How the pair of requests of one handleFetch call may end (lines 131-134):
\* both resolved, with the raw items and the clip, or one rejected.
Resolved(items, meta) == [kind |-> "resolved", items |-> items, meta |-> meta]
Rejected(msg) == [kind |-> "rejected", items |-> <<>>, meta |-> Null, msg |-> msg]
Settlements ==
  {Resolved(items, m) : items \in AppRawWords, m \in Metas}
  \cup {Rejected(msg) : msg \in {MsgUnauthorized, MsgCorsNoProxy}}

\* The edits the live editor may commit (lines 543, 549, 556).
EditTimes == {2}
EditTexts == {<<"x">>}
Changes ==
  {[field |-> f, time |-> t, text |-> <<>>] : f \in {"startTime", "endTime"}, t \in EditTimes}
  \cup {[field |-> "text", time |-> 0, text |-> t] : t \in EditTexts}

MaxPending == 2

\* Lines 154-183 end in the error state with a message.
Fail(msg) ==
  /\ errorMsg' = msg
  /\ appState' = "ERROR"
  /\ UNCHANGED <<result, metadata>>

\* Lines 172-178.
Succeed(alignedLines, meta) ==
  /\ result' = [lines |-> alignedLines,
                lrcContent |-> generateLRC(alignedLines),
                srtContent |-> generateSRT(alignedLines)]
  /\ metadata' = IF meta # Null THEN meta ELSE metadata
  /\ appState' = "SUCCESS"
  /\ UNCHANGED errorMsg

\* processData without the test of line 160.
processDataAnyWords(prompt, words, meta) ==
  IF prompt = <<>>
  THEN Fail(MsgNoLyrics)
  ELSE LET alignedLines == alignLyrics(prompt, words) IN
       IF alignedLines = Thrown THEN Fail(MsgAlignFailed)
       ELSE Succeed(alignedLines, meta)

\* Lines 153-184.
processData(prompt, words, meta) ==
  IF prompt = <<>>
  THEN Fail(MsgNoLyrics)
  ELSE IF words = <<>>
  THEN Fail(MsgNoWords)
  ELSE LET alignedLines == alignLyrics(prompt, words) IN
       IF alignedLines = Thrown THEN Fail(MsgAlignFailed)
       ELSE Succeed(alignedLines, meta)

\* Nothing outside the App component changes.
OutsideApp == <<vars, returned, formatVars, serializeVars, ingestVars>>

\* Line 363: the song id field is edited; it is shown with the fetch form.
SetSongId ==
  /\ appState \in {"IDLE", "LOADING", "ERROR"}
  /\ \E id \in SongIds : id # songId /\ songId' = id
  /\ UNCHANGED <<appState, errorMsg, result, metadata, pending>>
  /\ UNCHANGED OutsideApp

\* handleFetch that tests only that the id is not empty.
HandleFetchAnyId ==
  /\ appState \in {"IDLE", "ERROR"}
  /\ IF songId = <<>>
     THEN /\ errorMsg' = MsgInvalidId
          /\ appState' = "ERROR"
          /\ UNCHANGED pending
     ELSE /\ pending < MaxPending
          /\ appState' = "LOADING"
          /\ errorMsg' = ""
          /\ pending' = pending + 1
  /\ UNCHANGED <<songId, result, metadata>>
  /\ UNCHANGED OutsideApp

\* Lines 119-134, up to the await: the button is shown with the fetch form
\* and disabled while loading (lines 301-303, 489).
HandleFetch ==
  /\ appState \in {"IDLE", "ERROR"}
  /\ IF songId = <<>> \/ ~isValidUUID(songId)
     THEN /\ errorMsg' = MsgInvalidId
          /\ appState' = "ERROR"
          /\ UNCHANGED pending
     ELSE /\ pending < MaxPending
          /\ appState' = "LOADING"
          /\ errorMsg' = ""
          /\ pending' = pending + 1
  /\ UNCHANGED <<songId, result, metadata>>
  /\ UNCHANGED OutsideApp

\* FetchSettled without the catch of lines 137-149: a rejected request
\* leaves the state as it was.
FetchSettledUncaught ==
  /\ pending > 0
  /\ pending' = pending - 1
  /\ \E s \in Settlements :
       IF s.kind = "rejected" \/ Throws(s.items) \/ s.meta.metadata = Undefined
       THEN UNCHANGED <<appState, errorMsg, result, metadata>>
       ELSE processData(s.meta.metadata.prompt,
                        ToSunoWords(NormalizeWords(s.items)), s.meta)
  /\ UNCHANGED songId
  /\ UNCHANGED OutsideApp

\* Lines 131-150 from the await on: the requests of one call have settled.
\* fetchAlignedLyrics normalizes what it found (api.ts 83-92); a throw there
\* or in reading meta.metadata.prompt is caught at line 137.
FetchSettled ==
  /\ pending > 0
  /\ pending' = pending - 1
  /\ \E s \in Settlements :
       IF s.kind = "rejected" THEN Fail(s.msg)
       ELSE IF Throws(s.items) \/ s.meta.metadata = Undefined
       THEN Fail(MsgUnexpected)
       ELSE processData(s.meta.metadata.prompt,
                        ToSunoWords(NormalizeWords(s.items)), s.meta)
  /\ UNCHANGED songId
  /\ UNCHANGED OutsideApp

\* Lines 186-239; the button is shown in manual mode and needs both fields
\* filled (lines 303, 345).  The catch of line 236 sets the message only.
HandleManualProcess ==
  /\ appState = "MANUAL_INPUT"
  /\ \E manualPrompt \in AppPrompts \ {<<>>}, manualJson \in ManualJsons :
       LET Throw(msg) == errorMsg' = msg /\ UNCHANGED <<appState, result, metadata>>
       IN
       IF manualJson.kind = "invalid" THEN Throw(MsgSyntaxError)
       ELSE IF manualJson.kind = "scalar" THEN Throw(MsgNotArray)
       ELSE IF manualJson.kind = "object" /\ manualJson.items = <<>> THEN Throw(MsgNoArray)
       ELSE IF Throws(manualJson.items) THEN Throw(MsgTypeError)
       ELSE IF NormalizeWords(manualJson.items) = <<>> THEN Throw(MsgNoItems)
       ELSE processData(manualPrompt, ToSunoWords(NormalizeWords(manualJson.items)), Null)
  /\ UNCHANGED <<songId, pending>>
  /\ UNCHANGED OutsideApp

\* { ...line, ...changes }
Merge(line, changes) ==
  IF changes.field = "text" THEN [line EXCEPT !.text = changes.text]
  ELSE IF changes.field = "startTime" THEN [line EXCEPT !.startTime = changes.time]
  ELSE [line EXCEPT !.endTime = changes.time]

\* updateLine that keeps the line before the edited one ending where the
\* edited one starts.
updateLineRelinking(res, index, changes) ==
  IF res = Null THEN res
  ELSE LET newLines ==
             [k \in DOMAIN res.lines |->
                IF k = index + 1 THEN Merge(res.lines[k], changes)
                ELSE IF k = index /\ changes.field = "startTime"
                     THEN [res.lines[k] EXCEPT !.endTime = changes.time]
                     ELSE res.lines[k]]
       IN [lines |-> newLines,
           lrcContent |-> generateLRC(newLines),
           srtContent |-> generateSRT(newLines)]

\* updateLine that leaves the subtitle text as it was.
updateLineStale(res, index, changes) ==
  IF res = Null THEN res
  ELSE [res EXCEPT !.lines =
          [k \in DOMAIN res.lines |->
             IF k = index + 1 THEN Merge(res.lines[k], changes) ELSE res.lines[k]]]

\* Lines 241-255: the result updateLine sets, for a result res and a 0-based
\* index of one of its lines.
updateLine(res, index, changes) ==
  IF res = Null THEN res
  ELSE LET newLines ==
             [k \in DOMAIN res.lines |->
                IF k = index + 1 THEN Merge(res.lines[k], changes) ELSE res.lines[k]]
       IN [lines |-> newLines,
           lrcContent |-> generateLRC(newLines),
           srtContent |-> generateSRT(newLines)]

\* Lines 538-558: an edit is committed in the live editor, which is shown
\* with a result in the success state (line 515).
UpdateLine ==
  /\ appState = "SUCCESS"
  /\ result # Null
  /\ \E index \in 0..(Len(result.lines) - 1), changes \in Changes :
       /\ result' = updateLine(result, index, changes)
       /\ result' # result
  /\ UNCHANGED <<songId, appState, errorMsg, metadata, pending>>
  /\ UNCHANGED OutsideApp

\* Lines 479 and 505: manual mode is entered from the fetch form.
EnterManualInput ==
  /\ appState \in {"IDLE", "LOADING", "ERROR"}
  /\ appState' = "MANUAL_INPUT"
  /\ UNCHANGED <<songId, errorMsg, result, metadata, pending>>
  /\ UNCHANGED OutsideApp

\* Line 311.
BackToAutoFetch ==
  /\ appState = "MANUAL_INPUT"
  /\ appState' = "IDLE"
  /\ errorMsg' = ""
  /\ UNCHANGED <<songId, result, metadata, pending>>
  /\ UNCHANGED OutsideApp

\* Line 521.
CreateAnother ==
  /\ appState = "SUCCESS"
  /\ result # Null
  /\ appState' = "IDLE"
  /\ result' = Null
  /\ songId' = <<>>
  /\ UNCHANGED <<errorMsg, metadata, pending>>
  /\ UNCHANGED OutsideApp

InitApp ==
  /\ AppIdle
  /\ AlignIdle /\ FormatIdle /\ SerializeIdle /\ IngestIdle

NextApp ==
  \/ SetSongId
  \/ HandleFetch
  \/ FetchSettled
  \/ HandleManualProcess
  \/ UpdateLine
  \/ EnterManualInput
  \/ BackToAutoFetch
  \/ CreateAnother

SpecApp == InitApp /\ [][NextApp]_allVars


\* ----------------------------------------------------- one processData call
MaxPromptLines == 2
MaxProcessWords == 2
ProcessPrompts == { join(ls, "\n") : ls \in SeqUpTo(LinePool, MaxPromptLines) }
ProcessWordLists == { ws \in WordLists : Len(ws) <= MaxProcessWords }

\* processData is entered from handleFetch (line 136), loading and with the
\* clip, or from handleManualProcess (line 235), in manual mode with a prompt
\* and words (lines 231, 345) and without a clip.
InitProcess ==
  /\ promptText \in ProcessPrompts
  /\ alignedWords \in ProcessWordLists
  /\ appState \in {"LOADING", "MANUAL_INPUT"}
  /\ appState = "MANUAL_INPUT" => promptText # <<>> /\ alignedWords # <<>>
  /\ pc = "call"
  /\ rawLines = <<>> /\ i = 0 /\ wordCursor = 0 /\ lines = <<>> /\ anchors = <<>>
  /\ returned = <<>>
  /\ songId = <<>> /\ errorMsg = "" /\ result = Null /\ metadata = Null
  /\ pending = 0
  /\ FormatIdle /\ SerializeIdle /\ IngestIdle

ProcessData ==
  /\ pc = "call"
  /\ pc' = "done"
  /\ processData(promptText, alignedWords,
                 IF appState = "LOADING" THEN Meta(promptText) ELSE Null)
  /\ UNCHANGED <<promptText, alignedWords, rawLines, i, wordCursor, lines, anchors>>
  /\ UNCHANGED <<returned, songId, pending, formatVars, serializeVars, ingestVars>>

NextProcess == ProcessData

SpecProcess == InitProcess /\ [][NextProcess]_allVars


\* ------------------------------------------------------ serializing lines
MaxBlocks == 3

\* AlignedLines as an editor may leave them: any text, start and end.
LinesPool ==
  { [text |-> text, startTime |-> startTime, endTime |-> endTime, words |-> <<>>] :
      text \in {OneTokenLine, FallbackLine},
      startTime \in {0, 61},
      endTime \in {1, 3600} }

InitSerialize ==
  /\ given \in SeqUpTo(LinesPool, MaxBlocks)
  /\ srtContent = None
  /\ AlignIdle /\ AppIdle /\ FormatIdle /\ IngestIdle

OutsideSerialize == <<vars, returned, appVars, formatVars, ingestVars>>

\* generateSRT is called with the lines.
GenerateSRT ==
  /\ srtContent = None
  /\ srtContent' = generateSRT(given)
  /\ UNCHANGED given
  /\ UNCHANGED OutsideSerialize

\* The caller drops one line of the list.
FilterLines ==
  /\ \E k \in DOMAIN given :
       given' = SubSeq(given, 1, k - 1) \o SubSeq(given, k + 1, Len(given))
  /\ srtContent' = None
  /\ UNCHANGED OutsideSerialize

\* The caller swaps two neighbouring lines of the list.
ReorderLines ==
  /\ \E k \in 1..(Len(given) - 1) :
       /\ given[k] # given[k + 1]
       /\ given' = [given EXCEPT ![k] = given[k + 1], ![k + 1] = given[k]]
  /\ srtContent' = None
  /\ UNCHANGED OutsideSerialize

NextSerialize == GenerateSRT \/ FilterLines \/ ReorderLines

SpecSerialize == InitSerialize /\ [][NextSerialize]_allVars


\* ------------------------------------------------- calls of alignLyrics
MaxCalls == 3

CallTexts ==
  {OneTokenLine,
   join(<<FallbackLine, OneTokenLine>>, "\n"),
   join(<<MarkerLine, NoTokenLine, OneTokenLine>>, "\n")}
CallWordLists ==
  {MakeWords(<<<<"B", "!">>>>, <<0>>, 1),
   MakeWords(<<<<"a">>, <<"B", "!">>>>, <<0, 1>>, 1)}

\* Lines 33-40 of the first call.
InitCalls ==
  /\ promptText \in CallTexts
  /\ rawLines = RawLines(promptText)
  /\ alignedWords \in CallWordLists
  /\ i = 0
  /\ wordCursor = 0
  /\ lines = <<>>
  /\ anchors = <<>>
  /\ pc = "loop"
  /\ returned = <<>>
  /\ AppIdle /\ FormatIdle /\ SerializeIdle /\ IngestIdle

\* A call entered with the cursor where the call before left it.
CallAgainKeepingCursor ==
  /\ pc = "done"
  /\ Len(returned) + 1 < MaxCalls
  /\ returned' = Append(returned,
                        [text |-> promptText, words |-> alignedWords, lines |-> lines])
  /\ promptText' \in CallTexts
  /\ rawLines' = RawLines(promptText')
  /\ alignedWords' \in CallWordLists
  /\ i' = 0
  /\ wordCursor' = wordCursor
  /\ lines' = <<>>
  /\ anchors' = <<>>
  /\ pc' = "loop"
  /\ UNCHANGED OutsideCall

\* The call returns (line 128) and alignLyrics is called again; lines 33-40
\* of the next call: its cursor and its list are new locals.
CallAgain ==
  /\ pc = "done"
  /\ Len(returned) + 1 < MaxCalls
  /\ returned' = Append(returned,
                        [text |-> promptText, words |-> alignedWords, lines |-> lines])
  /\ promptText' \in CallTexts
  /\ rawLines' = RawLines(promptText')
  /\ alignedWords' \in CallWordLists
  /\ i' = 0
  /\ wordCursor' = 0
  /\ lines' = <<>>
  /\ anchors' = <<>>
  /\ pc' = "loop"
  /\ UNCHANGED OutsideCall

NextCalls == Next \/ CallAgain

SpecCalls == InitCalls /\ [][NextCalls]_allVars


\* ------------------------------------------------------ formatting a time
MaxMillis == 1200

\* Times of whole milliseconds from 0 on, and some longer ones: 59.999 s,
\* 60 s, 65.256 s, 3599.999 s, 3600 s, 3661.0005 s.
FormatTimes ==
  {10 * ms : ms \in 0..MaxMillis}
  \cup {599990, 600000, 652560, 35999990, 36000000, 36610005}

InitFormat ==
  /\ timeTicks \in FormatTimes
  /\ lrcTime = None
  /\ srtTime = None
  /\ AlignIdle /\ AppIdle /\ SerializeIdle /\ IngestIdle

OutsideFormat == <<vars, returned, appVars, serializeVars, ingestVars>>

\* formatLrcTime is called with the time.
FormatLrcTime ==
  /\ lrcTime = None
  /\ lrcTime' = formatLrcTime(ToDouble(timeTicks))
  /\ UNCHANGED <<timeTicks, srtTime>>
  /\ UNCHANGED OutsideFormat

\* formatSrtTime is called with the time.
FormatSrtTime ==
  /\ srtTime = None
  /\ srtTime' = formatSrtTime(ToDouble(timeTicks))
  /\ UNCHANGED <<timeTicks, lrcTime>>
  /\ UNCHANGED OutsideFormat

NextFormat == FormatLrcTime \/ FormatSrtTime

SpecFormat == InitFormat /\ [][NextFormat]_allVars


\* ------------------------------------------------- normalizing a word list
InitIngest ==
  /\ found \in RawWordLists
  /\ normalizedWords = <<Null>>
  /\ AlignIdle /\ AppIdle /\ FormatIdle /\ SerializeIdle

OutsideIngest == <<vars, returned, appVars, formatVars, serializeVars>>

\* The list found in the payload is mapped and filtered.
Normalize ==
  /\ normalizedWords = <<Null>>
  /\ normalizedWords' = NormalizeWords(found)
  /\ UNCHANGED found
  /\ UNCHANGED OutsideIngest

NextIngest == Normalize

SpecIngest == InitIngest /\ [][NextIngest]_allVars


\* ================================================================ claims

\* A text that starts with '[' and ends with ']'.
Bracketed(l) == l # <<>> /\ l[1] = "[" /\ l[Len(l)] = "]"

\* The word indices from the cursor on whose normalized text is the token.
MatchesFrom(token, cursor) ==
  {w \in cursor..(Len(alignedWords) - 1) : normalize(alignedWords[w + 1].word) = token}

\* The loop is at a line that is no section marker and has a token.
AtLyricLine ==
  /\ pc = "loop"
  /\ i < Len(rawLines)
  /\ ~Bracketed(rawLines[i + 1])
  /\ LineTokens(rawLines[i + 1]) # <<>>

CurrentTokens == LineTokens(rawLines[i + 1])
FirstMatches == MatchesFrom(CurrentTokens[1], wordCursor)
SecondMatches ==
  IF Len(CurrentTokens) > 1 THEN MatchesFrom(CurrentTokens[2], wordCursor) ELSE {}

\* The step pushes exactly one line, the source line the loop is at.
Pushes ==
  /\ Len(lines') = Len(lines) + 1
  /\ Len(anchors') = Len(anchors) + 1
  /\ Last(lines').text = rawLines[i + 1]

\* C1: once the end times are set, every returned line starts no later than
\* it ends, whichever search anchored it (the word list is in time order).
C1_StartNotAfterEnd ==
  pc = "done" => \A k \in DOMAIN lines : lines[k].startTime <= lines[k].endTime

\* A returned list whose first line the fallback anchored and whose last line
\* starts after the last word's end.
C1_Witness ==
  /\ pc = "done"
  /\ Len(lines) = 2
  /\ lines[1].text = FallbackLine
  /\ lines[2].text = OneTokenLine
  /\ lines[2].startTime = 1
  /\ Last(alignedWords).end = 0

\* C2: the cursor starts at 0 and never decreases; it changes only when a line
\* is pushed, and then to the anchor plus one, so the anchors of successive
\* lines strictly increase.
C2_Step ==
  /\ wordCursor' >= wordCursor
  /\ wordCursor' # wordCursor => Len(lines') = Len(lines) + 1
  /\ Len(lines') = Len(lines) + 1 =>
       /\ Last(anchors') >= wordCursor
       /\ wordCursor' = Last(anchors') + 1

C2_Anchors ==
  /\ anchors = <<>> => wordCursor = 0
  /\ \A j, k \in DOMAIN anchors : j < k => anchors[j] < anchors[k]

C2_CursorNeverGoesBack == [][C2_Step]_vars /\ []C2_Anchors

\* Two lines pushed, the second anchored past a word that was passed over.
C2_Witness == anchors = <<0, 2>> /\ wordCursor = 3 /\ i = 3

\* C3: when a word at or after the cursor is the line's first token, the line
\* is anchored at the first such word, whether or not the word after it is
\* the line's second token.
C3_Step ==
  (AtLyricLine /\ FirstMatches # {}) =>
     (Pushes /\ Last(anchors') = Min(FirstMatches))

C3_PrimaryTakesFirstMatch == [][C3_Step]_vars

\* Words a, a, b and the line "a b": anchored at word 0, whose successor is
\* not b, though word 1 is followed by b.
C3_Witness ==
  /\ anchors = <<0>>
  /\ lines[1].text = TwoTokenLine
  /\ Len(alignedWords) = 3
  /\ normalize(alignedWords[2].word) = <<"a">>
  /\ normalize(alignedWords[3].word) = <<"b">>

\* C4: the fallback decides only when no word from the cursor on is the first
\* token and the line has a second token; it then anchors at the first word
\* from the same cursor on that is the second token, and the line starts at
\* that word's start.  A line of one token is never anchored by it.
C4_Step ==
  /\ (AtLyricLine /\ FirstMatches = {} /\ SecondMatches # {}) =>
       /\ Pushes
       /\ Last(anchors') = Min(SecondMatches)
       /\ Last(lines').startTime = alignedWords[Min(SecondMatches) + 1].start
  /\ (AtLyricLine /\ FirstMatches = {} /\ Len(CurrentTokens) = 1) =>
       (lines' = lines /\ anchors' = anchors)
  /\ (AtLyricLine /\ FirstMatches # {}) =>
       (Pushes /\ Last(anchors') \in FirstMatches)

C4_FallbackOnSecondToken == [][C4_Step]_vars

\* The line "c a" over words b, a: anchored at word 1, start 1.
C4_Witness ==
  /\ anchors = <<1>>
  /\ lines[1].text = FallbackLine
  /\ lines[1].startTime = 1
  /\ normalize(alignedWords[1].word) = <<"b">>

\* C5: a line that neither search anchors pushes nothing and leaves the cursor
\* where it was.
C5_Step ==
  (AtLyricLine /\ FirstMatches = {} /\ SecondMatches = {}) =>
     /\ lines' = lines
     /\ anchors' = anchors
     /\ wordCursor' = wordCursor
     /\ i' = i + 1
     /\ pc' = pc

C5_UnmatchedLineDropped == [][C5_Step]_vars

\* A line was dropped after one line had been pushed, and the line after it
\* was anchored right behind the first one's anchor.
C5_Witness ==
  /\ Len(rawLines) = 3
  /\ rawLines[2] = FallbackLine
  /\ i = 3
  /\ anchors = <<0, 1>>
  /\ lines[2].text = rawLines[3]

\* The text without the lines that are section markers once trimmed.
NotMarker(l) == ~Bracketed(trim(l))
WithoutMarkers(text) == join(SelectSeq(split(text, "\n"), NotMarker), "\n")
HasMarker(text) == WithoutMarkers(text) # text

\* C6: a section marker is never returned and changes nothing: the result is
\* the result for the text with all section markers removed.
C6_MarkersSkipped ==
  /\ \A k \in DOMAIN lines : ~Bracketed(lines[k].text)
  /\ pc = "done" => lines = alignLyrics(WithoutMarkers(promptText), alignedWords)

\* "[a]" then "a b" over words a, b: one line, "a b", starting at 0.
C6_Witness ==
  /\ pc = "done"
  /\ rawLines = <<MarkerLine, TwoTokenLine>>
  /\ Len(alignedWords) = 2
  /\ normalize(alignedWords[1].word) = <<"a">>
  /\ normalize(alignedWords[2].word) = <<"b">>
  /\ Len(lines) = 1
  /\ lines[1].text = TwoTokenLine
  /\ lines[1].startTime = 0

\* C7: every returned line but the last ends where the returned line after it
\* starts.
C7_LinesContiguous ==
  pc = "done" =>
    \A k \in DOMAIN lines :
      k + 1 \in DOMAIN lines => lines[k].endTime = lines[k + 1].startTime

\* Two returned lines with a dropped source line between them; the first
\* ends at 1, where the second starts.
C7_Witness ==
  /\ pc = "done"
  /\ Len(rawLines) = 3
  /\ Len(lines) = 2
  /\ lines[1].text = rawLines[1]
  /\ lines[2].text = rawLines[3]
  /\ rawLines[2] = FallbackLine
  /\ lines[1].startTime = 0
  /\ lines[1].endTime = 1

\* C8: the last returned line ends at the end of the last word of the list
\* when that is after the line's start, and five seconds after its start
\* otherwise.
C8_LastLineEnd ==
  (pc = "done" /\ lines # <<>>) =>
    LET last == Last(lines)
        wordEnd == Last(alignedWords).end
    IN  last.endTime = IF wordEnd > last.startTime THEN wordEnd
                       ELSE last.startTime + 5

\* One line over one word that starts at 1 and ends at 0: the line ends at 6.
C8_Witness ==
  /\ pc = "done"
  /\ Len(lines) = 1
  /\ Len(alignedWords) = 1
  /\ alignedWords[1].start = 1
  /\ alignedWords[1].end = 0
  /\ lines[1].startTime = 1
  /\ lines[1].endTime = 6

\* s can be had from t by deleting elements.
RECURSIVE IsSubseq(_, _)
IsSubseq(s, t) ==
  IF s = <<>> THEN TRUE
  ELSE IF t = <<>> THEN FALSE
  ELSE IF Head(s) = Head(t) THEN IsSubseq(Tail(s), Tail(t))
  ELSE IsSubseq(s, Tail(t))

\* The trimmed source lines that are neither blank nor section markers.
IsLyric(l) == l # <<>> /\ ~Bracketed(l)
LyricLines == SelectSeq(rawLines, IsLyric)

\* C9: the returned texts are, in order, some of the trimmed source lines that
\* are neither blank nor section markers, at most one per source line, and
\* the start times never decrease (the word list is in time order).
C9_SourceOrder ==
  /\ IsSubseq([k \in DOMAIN lines |-> lines[k].text], LyricLines)
  /\ Len(lines) <= i
  /\ \A j, k \in DOMAIN lines : j < k => lines[j].startTime <= lines[k].startTime

\* Three source lines, the middle one not returned; the two returned lines
\* start at different times.
C9_Witness ==
  /\ pc = "done"
  /\ Len(rawLines) = 3
  /\ Len(lines) = 2
  /\ lines[1].text = rawLines[1]
  /\ lines[2].text = rawLines[3]
  /\ lines[1].startTime < lines[2].startTime

\* C10: the call never throws: every search ends with "not found" or with the
\* index of a word of the list; every step takes the call to the next source
\* line or to the return; with no words, no line is returned.
C10_State ==
  /\ pc # "threw"
  /\ i <= Len(rawLines)
  /\ AtLyricLine =>
       MatchIndex(CurrentTokens, wordCursor, alignedWords)
         \in {NotFound} \cup (wordCursor..(Len(alignedWords) - 1))
  /\ (pc = "done" /\ alignedWords = <<>>) => lines = <<>>

C10_Step == (i' = i + 1 /\ pc' = pc) \/ (i' = i /\ pc = "loop" /\ pc' = "done")

C10_Total == []C10_State /\ [][C10_Step]_vars

\* A text of three lines with tokens, no words: the empty list is returned.
C10_Witness ==
  /\ pc = "done"
  /\ alignedWords = <<>>
  /\ rawLines = <<TwoTokenLine, OneTokenLine, FallbackLine>>
  /\ lines = <<>>

\* No trimmed source line is both free of brackets and carries a token.
NothingToAlign ==
  \A k \in DOMAIN rawLines :
    Bracketed(rawLines[k]) \/ LineTokens(rawLines[k]) = <<>>

\* The loop is at a line that is no section marker and has no token.
AtNoTokenLine ==
  /\ pc = "loop"
  /\ i < Len(rawLines)
  /\ ~Bracketed(rawLines[i + 1])
  /\ LineTokens(rawLines[i + 1]) = <<>>

C11_State == NothingToAlign => lines = <<>>

C11_Step ==
  AtNoTokenLine => (i' = i + 1 /\ lines' = lines /\ wordCursor' = wordCursor)

\* C11: a text whose every line is blank, a section marker or without letters
\* and digits gives the empty list whatever the words are, and a line without
\* tokens is passed over with no line pushed and the cursor left in place.
C11_NothingToAlign == []C11_State /\ [][C11_Step]_vars

\* Three words, and a text of a punctuation line, a blank line, a section
\* marker and another punctuation line: the empty list is returned.
C11_Witness ==
  /\ pc = "done"
  /\ Len(alignedWords) = 3
  /\ rawLines = <<NoTokenLine, MarkerLine, NoTokenLine>>
  /\ lines = <<>>

\* The call of processData has returned.
Processed == pc = "done"
Reported == appState = "ERROR" /\ errorMsg # ""
NothingAligned == alignLyrics(promptText, alignedWords) = <<>>

\* C12 as stated: processData ends in the error state with a message, and not
\* in the success state, when the lyric text is empty and when the aligner
\* returns no line.
C12_EmptyAlignmentReported ==
  (Processed /\ (promptText = <<>> \/ NothingAligned)) => Reported

\* C12: processData ends in the error state with a message, with no result
\* set, when the lyric text is empty and when the word list is empty; with a
\* text and words it ends in the success state with the lines the aligner
\* returned, also when there are none.
C12_EmptyInputReported ==
  Processed =>
    IF promptText = <<>> \/ alignedWords = <<>>
    THEN Reported /\ result = Null
    ELSE /\ appState = "SUCCESS"
         /\ result # Null
         /\ result.lines = alignLyrics(promptText, alignedWords)

\* A text of one section marker and two words: success with no lines.
C12_Witness ==
  /\ Processed
  /\ RawLines(promptText) = <<MarkerLine>>
  /\ Len(alignedWords) = 2
  /\ appState = "SUCCESS"
  /\ result # Null
  /\ result.lines = <<>>

\* The text between the line breaks of the subtitle text.
SrtPieces ==
  LET breaks == {k \in DOMAIN srtContent : srtContent[k] = "\n"}
      Break(j) == IF j = 0 THEN 0
                  ELSE IF j > Cardinality(breaks) THEN Len(srtContent) + 1
                  ELSE CHOOSE p \in breaks : Cardinality({q \in breaks : q < p}) = j - 1
  IN [j \in 1..(Cardinality(breaks) + 1) |->
        SubSeq(srtContent, Break(j - 1) + 1, Break(j) - 1)]

\* C13: the subtitle text of n lines is n blocks in the order of the lines;
\* block k opens with the number k, then the times and the text of line k and
\* an empty line, whatever the times are and whatever list the lines were
\* taken from.
C13_BlocksNumbered ==
  srtContent # None =>
    IF given = <<>> THEN srtContent = <<>>
    ELSE /\ Len(SrtPieces) = 4 * Len(given)
         /\ \A k \in DOMAIN given :
              /\ SrtPieces[4 * k - 3] = <<Digits[k + 1]>>
              /\ SrtPieces[4 * k - 1] = given[k].text
              /\ SrtPieces[4 * k] = <<>>

\* Three lines serialized, the first starting after the second and ending
\* before it starts.
C13_Witness ==
  /\ srtContent # None
  /\ Len(given) = 3
  /\ given[1].startTime > given[2].startTime
  /\ given[1].endTime < given[1].startTime

\* The completed calls that had the arguments of the current one.
SameArguments ==
  {k \in DOMAIN returned :
     returned[k].text = promptText /\ returned[k].words = alignedWords}

\* C14: a call returns what every earlier call with the same text and words
\* returned, whatever calls came in between, and it starts with the cursor
\* at the first word and with no line.
C14_SameArgumentsSameLines ==
  /\ pc = "done" => \A k \in SameArguments : returned[k].lines = lines
  /\ (pc = "loop" /\ i = 0) => (wordCursor = 0 /\ lines = <<>>)

\* The third call returns two lines for the arguments of the first call, with
\* a call with other arguments in between.
C14_Witness ==
  /\ pc = "done"
  /\ Len(returned) = 2
  /\ Len(lines) = 2
  /\ SameArguments = {1}
  /\ returned[2].lines # lines

\* The whole number a string of decimal digits writes; -1 if it is none.
IsNumeral(s) == s # <<>> /\ \A k \in DOMAIN s : \E d \in 1..10 : Digits[d] = s[k]
DigitValue(ch) == (CHOOSE d \in 1..10 : Digits[d] = ch) - 1
RECURSIVE NumeralValue(_)
NumeralValue(s) ==
  IF s = <<>> THEN 0
  ELSE 10 * NumeralValue(SubSeq(s, 1, Len(s) - 1)) + DigitValue(s[Len(s)])
Field(s, from, to) == IF IsNumeral(SubSeq(s, from, to)) THEN NumeralValue(SubSeq(s, from, to)) ELSE -1

\* The fields of [mm:ss.xx], mm of two digits or more.
LrcShape ==
  /\ Len(lrcTime) >= 10
  /\ lrcTime[1] = "[" /\ lrcTime[Len(lrcTime) - 6] = ":"
  /\ lrcTime[Len(lrcTime) - 3] = "." /\ lrcTime[Len(lrcTime)] = "]"
LrcMinutes == Field(lrcTime, 2, Len(lrcTime) - 7)
LrcSeconds == Field(lrcTime, Len(lrcTime) - 5, Len(lrcTime) - 4)
LrcHundredths == Field(lrcTime, Len(lrcTime) - 2, Len(lrcTime) - 1)
LrcTicks == (LrcMinutes * 60 + LrcSeconds) * TicksPerSecond + LrcHundredths * (TicksPerSecond \div 100)

\* C15 as stated: for a time of whole milliseconds the timestamp is
\* [mm:ss.xx] with mm the whole minutes, ss in 00..59 and xx the hundredths
\* truncated: the time it writes is at most the time given and less than a
\* hundredth of a second below it.
C15_LrcTruncatesHundredths ==
  (lrcTime # None /\ timeTicks % (TicksPerSecond \div 1000) = 0) =>
    /\ LrcShape
    /\ LrcMinutes = timeTicks \div (60 * TicksPerSecond)
    /\ LrcSeconds \in 0..59
    /\ LrcHundredths \in 0..99
    /\ LrcTicks <= timeTicks
    /\ timeTicks < LrcTicks + TicksPerSecond \div 100

\* The fields of HH:MM:SS,mmm, HH of two digits or more.
SrtShape ==
  /\ Len(srtTime) >= 12
  /\ srtTime[Len(srtTime) - 9] = ":" /\ srtTime[Len(srtTime) - 6] = ":"
  /\ srtTime[Len(srtTime) - 3] = ","
SrtHours == Field(srtTime, 1, Len(srtTime) - 10)
SrtMinutes == Field(srtTime, Len(srtTime) - 8, Len(srtTime) - 7)
SrtSeconds == Field(srtTime, Len(srtTime) - 5, Len(srtTime) - 4)
SrtMillis == Field(srtTime, Len(srtTime) - 2, Len(srtTime))

\* C16 as stated: the timestamp is HH:MM:SS,mmm with HH the whole hours, MM
\* and SS in 00..59 and mmm in 000..999, and the fields make up the time given
\* cut to the millisecond.
C16_SrtTruncatesMillis ==
  srtTime # None =>
    /\ SrtShape
    /\ SrtHours = timeTicks \div (3600 * TicksPerSecond)
    /\ SrtMinutes \in 0..59
    /\ SrtSeconds \in 0..59
    /\ SrtMillis \in 0..999
    /\ ((SrtHours * 60 + SrtMinutes) * 60 + SrtSeconds) * 1000 + SrtMillis
         = timeTicks \div (TicksPerSecond \div 1000)

\* A raw item that can be normalized: a string text, a numeric start under
\* one of the spellings and a numeric end under one of the spellings.
Normalizable(w) ==
  /\ w # JsonNull
  /\ w.word.type = "string"
  /\ w.start.type = "number" \/ w.start_s.type = "number"
  /\ w.end.type = "number" \/ w.end_s.type = "number"
FirstNumber(a, b) == IF a.type = "number" THEN a ELSE b
Handed == normalizedWords # <<Null>>

\* C17 as stated: the words handed on are the raw items that can be
\* normalized, in order, each with its string text, its numeric start and its
\* numeric end, taken from start/end when that is a number and from
\* start_s/end_s otherwise; every other raw item is filtered out.
C17_OnlyNormalizedWords ==
  Handed =>
    /\ normalizedWords # Thrown
    /\ Len(normalizedWords) = Len(SelectSeq(found, Normalizable))
    /\ \A k \in 1..Len(SelectSeq(found, Normalizable)) :
         LET w == SelectSeq(found, Normalizable)[k]
             n == normalizedWords[k]
         IN  /\ n.word = w.word
             /\ n.start = FirstNumber(w.start, w.start_s)
             /\ n.end = FirstNumber(w.end, w.end_s)
             /\ n.start.type = "number" /\ n.end.type = "number"

\* C18: whenever there is a result, its LRC text and its SRT text are what
\* generateLRC and generateSRT give for its current lines, after processData
\* and after every edit of a line.
C18_ExportsFollowLines ==
  result # Null =>
    /\ result.lrcContent = generateLRC(result.lines)
    /\ result.srtContent = generateSRT(result.lines)

\* A line has been edited: the edits are the only source of these values.
Edited(line) == line.text \in EditTexts \/ line.startTime \in EditTimes \/ line.endTime \in EditTimes

\* A result made by processData has had a line edited twice.
C18_Witness ==
  /\ appState = "SUCCESS"
  /\ result # Null
  /\ \E k \in DOMAIN result.lines :
       result.lines[k].text \in EditTexts /\ result.lines[k].startTime \in EditTimes

\* A step of updateLine: the state stays SUCCESS, no request settles and the
\* result changes.
UpdateStep ==
  /\ appState = "SUCCESS" /\ appState' = "SUCCESS"
  /\ pending' = pending
  /\ result' # result

\* The line at position k differs from what it was in the one field edited,
\* which holds the value given.
OneFieldStored(old, new) ==
  \/ /\ new.text \in EditTexts
     /\ new = [old EXCEPT !.text = new.text]
  \/ /\ new.startTime \in EditTimes
     /\ new = [old EXCEPT !.startTime = new.startTime]
  \/ /\ new.endTime \in EditTimes
     /\ new = [old EXCEPT !.endTime = new.endTime]

C19_Step ==
  UpdateStep =>
    /\ result # Null /\ result' # Null
    /\ Len(result'.lines) = Len(result.lines)
    /\ \E k \in DOMAIN result.lines :
         /\ OneFieldStored(result.lines[k], result'.lines[k])
         /\ \A j \in DOMAIN result.lines : j # k => result'.lines[j] = result.lines[j]
    /\ UNCHANGED <<songId, errorMsg, metadata>>

\* C19: updateLine stores the edited field of the line at the index as given
\* and changes nothing else: the number and order of the lines, every other
\* line (the line before keeps its end time) and the other fields of the
\* edited line stay; without a result it changes nothing.
C19_EditStoredVerbatim ==
  /\ [][C19_Step]_allVars
  /\ \A index \in 0..MaxLines, changes \in Changes : updateLine(Null, index, changes) = Null

\* The first line has been given a start after its own end, the second line
\* a start after the end of the first, and the first still ends where it did.
C19_Witness ==
  /\ appState = "SUCCESS"
  /\ result # Null
  /\ Len(result.lines) >= 2
  /\ result.lines[1].startTime \in EditTimes
  /\ result.lines[1].startTime > result.lines[1].endTime
  /\ result.lines[2].startTime \in EditTimes
  /\ result.lines[1].endTime # result.lines[2].startTime

\* A call of handleFetch has passed the check of the id: a request more is
\* in flight.
FetchStarted == pending' = pending + 1
\* The requests of a call have settled.
Settled == pending' = pending - 1

C20_Step ==
  /\ FetchStarted => (isValidUUID(songId) /\ appState' = "LOADING")
  /\ Settled => appState' \in {"SUCCESS", "ERROR"}

C20_State ==
  /\ appState = "LOADING" => pending > 0
  /\ appState = "SUCCESS" => result # Null

\* C20: a call of handleFetch that passes the check of the id sets LOADING;
\* when its requests have settled the state is SUCCESS or ERROR, so LOADING
\* is held only while a request is in flight; SUCCESS is held only with a
\* result.
C20_FetchEndsInSuccessOrError == []C20_State /\ [][C20_Step]_allVars

\* A fetch has started, its requests were rejected and the state is ERROR
\* with the message of the rejection.
C20_Witness ==
  /\ appState = "ERROR"
  /\ errorMsg = MsgUnauthorized
  /\ isValidUUID(songId)
  /\ pending = 0

\* C21 as stated: at most one fetch is in flight at any time, and the
\* requests of a fetch settle in the LOADING state that fetch set, so that a
\* completing fetch overwrites nothing a later user action has set.
C21_OneFetchInFlight ==
  /\ [](pending <= 1)
  /\ [][Settled => appState = "LOADING"]_allVars

C22_Step ==
  (HandleFetch /\ ~isValidUUID(songId)) =>
    /\ appState' = "ERROR"
    /\ errorMsg' = MsgInvalidId
    /\ pending' = pending
    /\ UNCHANGED <<result, metadata, songId>>

\* C22: handleFetch with an empty song id or one that is no UUID sets ERROR
\* with the message asking for a valid id, does not enter LOADING, issues no
\* request and leaves result and metadata as they were; LOADING is entered
\* and a request issued only with a UUID.
C22_InvalidIdRejected ==
  [][C22_Step /\ (((appState # "LOADING" /\ appState' = "LOADING") \/ FetchStarted)
                    => isValidUUID(songId))]_allVars

\* After an earlier success left its metadata, handleFetch has been called
\* with an id that is not empty and is no UUID.
C22_Witness ==
  /\ appState = "ERROR"
  /\ errorMsg = MsgInvalidId
  /\ songId # <<>>
  /\ ~isValidUUID(songId)
  /\ metadata # Null
  /\ pending = 0

====
